---- MODULE Spec2Model ----
(***************************************************************************)
(* ouvrt: the hot-plug daemon (ouvrtd.c) and the Rift DK2 HMD driver       *)
(* (rift-dk2.c), as a state machine.                                       *)
(*                                                                         *)
(* Threads: the monitor thread (startup enumeration, then the udev event   *)
(* callback), the SIGINT handler that interrupts it, and one worker thread *)
(* per started device.  The generic device layer (ouvrt_device_start,      *)
(* ouvrt_device_stop, the GObject dispose/finalize of OuvrtDevice) and the *)
(* camera class are not part of the sources at hand; they follow the       *)
(* lifecycle description of the specification (section 4.2).               *)
(***************************************************************************)
EXTENDS Integers, Sequences, FiniteSets, TLC

(* ------------------------------ bounds -------------------------------- *)

\* Device instances the daemon allocates in one run (add events that
\* construct an instance).
MaxInst == 2

\* Full-size reports a worker decodes between two keepalives in the model.
MaxCount == 1

(* ------------------------- program constants -------------------------- *)

NUM_MATCHES == 6

NULL == "NULL"

\* fd value of a device that is not open, and the descriptor open() yields.
NoFd == -1
OpenFd == 3

device_matches ==
  << [vid |-> "2833", pid |-> "0021", subsystem |-> "hidraw",
      name |-> "Rift DK2", interface |-> 0, new |-> "rift_dk2_new"],
     [vid |-> "2833", pid |-> "0201", subsystem |-> "video4linux",
      name |-> "Camera DK2", interface |-> 0, new |-> "camera_dk2_new"],
     [vid |-> "0bb4", pid |-> "2c87", subsystem |-> "hidraw",
      name |-> "Vive Headset Mainboard", interface |-> 0,
      new |-> "vive_headset_mainboard_new"],
     [vid |-> "28de", pid |-> "2000", subsystem |-> "hidraw",
      name |-> "Vive Headset IMU", interface |-> 0,
      new |-> "vive_headset_imu_new"],
     [vid |-> "28de", pid |-> "2000", subsystem |-> "hidraw",
      name |-> "Vive Headset Lighthouse RX", interface |-> 1,
      new |-> "vive_headset_lighthouse_new"],
     [vid |-> "28de", pid |-> "2101", subsystem |-> "hidraw",
      name |-> "Vive Wireless Receiver", interface |-> 0,
      new |-> "vive_controller_new"] >>

(* ------------------------------ inputs -------------------------------- *)

\* The udev devices events are about: a Rift DK2 hidraw node and a Camera
\* DK2 video node of one headset (same serial), and a keyboard's hidraw
\* node that matches no table entry.
Hardware ==
  { [devnode |-> "/dev/hidraw0", subsystem |-> "hidraw", interface |-> "00",
     vid |-> "2833", pid |-> "0021", serial |-> "S1"],
    [devnode |-> "/dev/video0", subsystem |-> "video4linux", interface |-> "00",
     vid |-> "2833", pid |-> "0201", serial |-> "S1"],
    [devnode |-> "/dev/hidraw1", subsystem |-> "hidraw", interface |-> "00",
     vid |-> "046d", pid |-> "c31c", serial |-> NULL] }

\* Configuration reports (sample_rate, packet_interval) the HMD of the
\* daemon run holds at startup: 1000 Hz at 500 Hz or at 50 Hz reports.
DaemonConfigs ==
  { [sample_rate |-> 1000, packet_interval |-> 1],
    [sample_rate |-> 1000, packet_interval |-> 19] }

\* Timestamps of the periodic messages a worker receives.
Timestamps == {2000}

\* Configuration reports and requested rates of the rate negotiation runs.
SampleRates == {5, 800, 1000, 65535}
PacketIntervals == {0, 1, 19, 255}
RequestedRates == {0, 5, 50, 300, 500, 2000}

(* ------------------- rift-dk2.c: report rate codec -------------------- *)

\* uint16_t report_rate = sample_rate / (report.packet_interval + 1)
ReportRateOf(report) ==
  (report.sample_rate \div (report.packet_interval + 1)) % 65536

\* 1000000 / report_rate, for a rate that is not 0
ReportInterval(report_rate) == 1000000 \div report_rate

\* The two clamps of rift_dk2_set_report_rate, in the code's order.
ClampReportRate(report_rate, sample_rate) ==
  LET r1 == IF report_rate > sample_rate THEN sample_rate ELSE report_rate
  IN IF r1 < 5 THEN 5 ELSE r1

\* report.packet_interval = sample_rate / report_rate - 1, stored into the
\* __u8 field of struct rift_dk2_config_report.
PacketIntervalFor(sample_rate, report_rate) ==
  (sample_rate \div report_rate - 1) % 256

\* The rate and interval rift_dk2_set_report_rate stores on success.
StoredAfterSet(report_rate, sample_rate) ==
  [report_rate |-> ClampReportRate(report_rate, sample_rate),
   report_interval |-> ReportInterval(ClampReportRate(report_rate, sample_rate))]

\* rift_dk2_get_config on the private data priv, the device answering
\* report; io is the transport result of the get.  The outcomes: the
\* return value, the private data afterwards and whether the process
\* trapped.  A report rate of 0 makes 1000000 / report_rate a division by
\* zero: the process takes SIGFPE, or (on a target whose divide
\* instruction does not trap) the quotient is 0.
rift_dk2_get_config(priv, report, io) ==
  IF io < 0
    THEN { [ret |-> io, priv |-> priv, fault |-> FALSE] }
    ELSE IF ReportRateOf(report) = 0
      THEN { [ret |-> 0, priv |-> priv, fault |-> TRUE],
             [ret |-> 0,
              priv |-> [report_rate |-> 0, report_interval |-> 0],
              fault |-> FALSE] }
      ELSE { [ret |-> 0,
              priv |-> [report_rate |-> ReportRateOf(report),
                        report_interval |->
                          ReportInterval(ReportRateOf(report))],
              fault |-> FALSE] }

\* rift_dk2_set_report_rate(rift, report_rate), the device answering
\* report; io_get and io_send are the transport results of the get and of
\* the send.  The outcome: the return value, the private data afterwards
\* and the configuration report the device holds afterwards (a device
\* applies the report it is sent).
rift_dk2_set_report_rate(priv, report, report_rate, io_get, io_send) ==
  IF io_get < 0
    THEN [ret |-> io_get, priv |-> priv, report |-> report]
    ELSE IF io_send < 0
      THEN [ret |-> io_send, priv |-> priv, report |-> report]
      ELSE [ret |-> 0,
            priv |-> StoredAfterSet(report_rate, report.sample_rate),
            report |->
              [report EXCEPT !.packet_interval =
                 PacketIntervalFor(report.sample_rate,
                   ClampReportRate(report_rate, report.sample_rate))]]

(* ------------------------------- state -------------------------------- *)

VARIABLES
  device_list,   \* ouvrtd.c: the registry, a sequence of instance ids
  num_devices,   \* ouvrtd.c: static int num_devices
  dev,           \* the device instances (OuvrtDevice and its subclasses)
  tracker_ref,   \* reference count of each tracker object (0: released)
  hid_config,    \* the configuration report the HMD hardware holds
  phase,         \* monitor thread: "enumerate" or "monitor"
  enumerated,    \* devices the startup enumeration has visited
  mon_pc,        \* monitor thread: position inside the current handler
  mon_dev,       \* monitor thread: the instance the handler works on
  last_add,      \* devnode of the add event dispatched last, if an add
                 \* that appended was the last event dispatched
  sig_pc,        \* SIGINT handler: "none", "walk", "join", "exited"
  sig_i,         \* SIGINT handler: position of g_list_foreach
  fault,         \* the process died of a trap
  codec,         \* the rate negotiation run: private data, device, last call
  decode,        \* a sensor message decode run: memory, private data, output
  enumeration,   \* a multi-record enumeration run: device, LED table, log
  worker         \* an HMD worker loop run: counter, last wake-up, keepalives

\* The runs of single routines, which the daemon's actions leave alone.
unit_vars == << decode, enumeration, worker >>

vars == << device_list, num_devices, dev, tracker_ref, hid_config, phase,
           enumerated, mon_pc, mon_dev, last_add, sig_pc, sig_i, fault,
           codec, unit_vars >>

daemon_vars == << device_list, num_devices, dev, tracker_ref, hid_config,
                  phase, enumerated, mon_pc, mon_dev, last_add, sig_pc,
                  sig_i >>

Inst == 1 .. MaxInst

\* An instance slot that was never allocated.
FreeDev ==
  [alloc |-> "free", class |-> "none", devnode |-> NULL, serial |-> NULL,
   name |-> NULL, fd |-> NoFd, active |-> FALSE, thread |-> "none",
   tracker |-> 0, report_rate |-> 0, report_interval |-> 0,
   last_sample_timestamp |-> 0, count |-> 0, bringup |-> "none"]

\* The memory of a finalized instance.
FreedDev == [FreeDev EXCEPT !.alloc = "freed"]

NoCodec ==
  [priv |-> [report_rate |-> 0, report_interval |-> 0],
   report |-> [sample_rate |-> 0, packet_interval |-> 0],
   op |-> "none", arg |-> 0, ret |-> 0]

\* main() up to ouvrtd_startup: no instance, an empty registry, the
\* signal handler installed, the enumeration about to run.
DaemonInit ==
  /\ device_list = << >>
  /\ num_devices = 0
  /\ dev = [d \in Inst |-> FreeDev]
  /\ tracker_ref = [t \in Inst |-> 0]
  /\ phase = "enumerate"
  /\ enumerated = {}
  /\ mon_pc = "idle"
  /\ mon_dev = 0
  /\ last_add = NULL
  /\ sig_pc = "none"
  /\ sig_i = 0
  /\ fault = FALSE

\* No run of a single routine is under way.
NoUnit == "none"
NoUnits == decode = NoUnit /\ enumeration = NoUnit /\ worker = NoUnit

Init ==
  /\ DaemonInit
  /\ hid_config \in DaemonConfigs
  /\ codec = NoCodec
  /\ NoUnits

\* The process runs: it neither exited nor died.
Running == sig_pc # "exited" /\ ~fault

\* The monitor thread runs: no signal handler is on its stack.
MonitorRuns == Running /\ sig_pc = "none"

(* --------------------- ouvrtd.c: ouvrtd_device_add -------------------- *)

\* atoi() of a bInterfaceNumber attribute, which sysfs prints as two
\* hexadecimal digits: the decimal digits the string begins with.
Atoi(str) ==
  CASE str = "00" -> 0
    [] str = "01" -> 1
    [] str = "0a" -> 0
    [] str = "10" -> 10
    [] OTHER -> 0

\* One of the attributes the parent walk reads is missing.
AttrMissing(h) ==
  h.subsystem = NULL \/ h.interface = NULL \/ h.vid = NULL \/ h.pid = NULL

\* The condition of the table scan for entry i (1-based here).
Matches(h, i) ==
  /\ h.vid = device_matches[i].vid
  /\ h.pid = device_matches[i].pid
  /\ h.subsystem = device_matches[i].subsystem
  /\ device_matches[i].interface = Atoi(h.interface)

\* The value of i when the table scan ends: the first matching entry, or
\* one past the table.
MatchIndex(h) ==
  IF \E i \in 1 .. NUM_MATCHES : Matches(h, i)
    THEN CHOOSE i \in 1 .. NUM_MATCHES :
           Matches(h, i) /\ \A j \in 1 .. (i - 1) : ~Matches(h, j)
    ELSE NUM_MATCHES + 1

Matched(h) == ~AttrMissing(h) /\ MatchIndex(h) <= NUM_MATCHES

\* The instance g_object_new hands out next.
CanAlloc == \E d \in Inst : dev[d].alloc = "free"
NewInst ==
  CHOOSE d \in Inst :
    dev[d].alloc = "free" /\ \A e \in 1 .. (d - 1) : dev[e].alloc # "free"

\* rift_dk2_new: the instance, holding a tracker of its own (the tracker
\* of instance d is named d).
rift_dk2_new(d, devnode) ==
  [FreeDev EXCEPT !.alloc = "live", !.class = "rift_dk2",
                  !.devnode = devnode, !.tracker = d]

\* camera_dk2_new and the Vive constructors: an instance without a tracker.
other_new(class, devnode) ==
  [FreeDev EXCEPT !.alloc = "live", !.class = class, !.devnode = devnode]

ClassOf(new) ==
  IF new = "rift_dk2_new" THEN "rift_dk2"
  ELSE IF new = "camera_dk2_new" THEN "camera_dk2" ELSE "other"

\* g_list_find_custom: the position of the first entry of list that
\* satisfies the comparison on field, 0 when there is none.
FindCustom(list, devs, field, value) ==
  IF \E k \in 1 .. Len(list) : devs[list[k]][field] = value
    THEN CHOOSE k \in 1 .. Len(list) :
           /\ devs[list[k]][field] = value
           /\ \A j \in 1 .. (k - 1) : devs[list[j]][field] # value
    ELSE 0

\* The instance whose tracker the new instance d's pairing copies, and the
\* instance that receives it, for the registry entry link; 0 and 0 when
\* the two are not a camera and an HMD.
PairRift(devs, d, link) ==
  IF devs[d].class = "camera_dk2" /\ devs[link].class = "rift_dk2"
    THEN link
    ELSE IF devs[d].class = "rift_dk2" /\ devs[link].class = "camera_dk2"
      THEN d ELSE 0

PairCamera(devs, d, link) ==
  IF devs[d].class = "camera_dk2" /\ devs[link].class = "rift_dk2"
    THEN d
    ELSE IF devs[d].class = "rift_dk2" /\ devs[link].class = "camera_dk2"
      THEN link ELSE 0

\* Associate with the branch for a new HMD and a registered camera left out.
AssociateNewCameraOnly(devs, d, link) ==
  IF devs[d].class = "camera_dk2" /\ devs[link].class = "rift_dk2"
    THEN [devs EXCEPT ![d].tracker = devs[link].tracker]
    ELSE devs

\* camera->v4l2.camera.tracker = rift->tracker, when both are set.
Associate(devs, d, link) ==
  IF PairRift(devs, d, link) # 0 /\ PairCamera(devs, d, link) # 0
    THEN [devs EXCEPT ![PairCamera(devs, d, link)].tracker =
                        devs[PairRift(devs, d, link)].tracker]
    ELSE devs

\* The instances after the constructor and the name, serial and pairing
\* code of ouvrtd_device_add, for hardware h and new instance d.
AddedDevs(h, d) ==
  LET m == device_matches[MatchIndex(h)]
      made == IF m.new = "rift_dk2_new"
                THEN rift_dk2_new(d, h.devnode)
                ELSE other_new(ClassOf(m.new), h.devnode)
      named == [made EXCEPT !.name = m.name, !.serial = h.serial]
      devs == [dev EXCEPT ![d] = named]
      link == FindCustom(device_list, devs, "serial", named.serial)
  IN IF named.serial # NULL /\ link # 0
       THEN Associate(devs, d, device_list[link])
       ELSE devs

\* ouvrtd_device_add up to g_list_append; made: the constructor returned
\* an instance.  The call of ouvrt_device_start follows as a step of its
\* own (a signal may be delivered in between).
ouvrtd_device_add(h, made) ==
  /\ MonitorRuns
  /\ mon_pc = "idle"
  /\ IF Matched(h) /\ made
       THEN /\ CanAlloc
            /\ dev' = AddedDevs(h, NewInst)
            /\ tracker_ref' =
                 IF dev'[NewInst].class = "rift_dk2"
                   THEN [tracker_ref EXCEPT ![NewInst] = 1]
                   ELSE tracker_ref
            /\ device_list' = Append(device_list, NewInst)
            /\ mon_pc' = "add_start"
            /\ mon_dev' = NewInst
            /\ last_add' = h.devnode
       ELSE /\ last_add' = NULL
            /\ UNCHANGED << dev, tracker_ref, device_list, mon_pc, mon_dev >>
  /\ UNCHANGED << num_devices, hid_config, sig_pc, sig_i, fault, codec, unit_vars >>

(* ----------------------- rift-dk2.c: start, stop ---------------------- *)

\* Where a start sequence may return: the step that fails, or "ok".
StartSteps ==
  { "open", "positions", "patterns", "config", "rate_get", "rate_send",
    "tracking", "display", "ok" }

PrivOf(r) ==
  [report_rate |-> r.report_rate, report_interval |-> r.report_interval]

WithPriv(r, priv) ==
  [r EXCEPT !.report_rate = priv.report_rate,
            !.report_interval = priv.report_interval]

\* What rift_dk2_start does to the file handle of instance r when open()
\* succeeds; the error returns that follow leave it as it is.
OpenedBy(r) == [r EXCEPT !.fd = IF r.fd = NoFd THEN OpenFd ELSE r.fd]

StartReturn(r, step, report, ret) ==
  [ret |-> ret, dev |-> [r EXCEPT !.bringup = step], report |-> report,
   fault |-> FALSE]

\* rift_dk2_start on instance r, the device holding configuration report;
\* fail names the first step whose transport fails ("ok": none).  The
\* multi-record enumerations (positions, LED patterns) count here by
\* their return value.  The outcomes: return value, the instance and the
\* device's report afterwards, and whether the process trapped.
rift_dk2_start(r, report, fail) ==
  IF r.fd = NoFd /\ fail = "open"
    THEN { StartReturn(r, "open", report, -1) }
  ELSE IF fail = "positions"
    THEN { StartReturn(OpenedBy(r), "positions", report, -1) }
  ELSE IF fail = "patterns"
    THEN { StartReturn(OpenedBy(r), "patterns", report, -1) }
  ELSE IF fail = "config"
    THEN { StartReturn(OpenedBy(r), "config", report, -1) }
  ELSE
    { IF g.fault
        THEN [ret |-> 0, dev |-> OpenedBy(r), report |-> report,
              fault |-> TRUE]
        ELSE LET r2 == WithPriv(OpenedBy(r), g.priv)
                 s == rift_dk2_set_report_rate(g.priv, report, 500,
                        IF fail = "rate_get" THEN -1 ELSE 0,
                        IF fail = "rate_send" THEN -1 ELSE 0)
                 r3 == WithPriv(r2, s.priv)
             IN IF s.ret < 0
                  THEN StartReturn(r2, "rate", report, s.ret)
                ELSE IF fail = "tracking"
                  THEN StartReturn(r3, "tracking", s.report, -1)
                ELSE IF fail = "display"
                  THEN StartReturn(r3, "display", s.report, -1)
                ELSE StartReturn(r3, "ok", s.report, 0)
      : g \in rift_dk2_get_config(PrivOf(r), report, 0) }

\* The start of the other classes (camera, Vive), after the lifecycle of
\* the specification: a failed bring-up leaves no open handle.
other_start(r, report, fail) ==
  IF fail = "ok"
    THEN { StartReturn(OpenedBy(r), "ok", report, 0) }
    ELSE { StartReturn(r, "failed", report, -1) }

ClassStart(r, report, fail) ==
  IF r.class = "rift_dk2"
    THEN rift_dk2_start(r, report, fail)
    ELSE other_start(r, report, fail)

\* ouvrt_device_start of the generic device layer around the class's
\* start: an active device is left alone; on success the active flag is
\* set and the worker thread is spawned.
StartedDev(o) ==
  IF o.ret < 0 \/ o.fault
    THEN o.dev
    ELSE [o.dev EXCEPT !.active = TRUE, !.thread = "entry"]

\* ouvrtd_device_add, its last statement: ouvrt_device_start(d).
ouvrt_device_start(fail) ==
  /\ MonitorRuns
  /\ mon_pc = "add_start"
  /\ \E o \in ClassStart(dev[mon_dev], hid_config, fail) :
       /\ dev' = [dev EXCEPT ![mon_dev] = StartedDev(o)]
       /\ hid_config' = o.report
       /\ fault' = o.fault
  /\ mon_pc' = "idle"
  /\ mon_dev' = 0
  /\ UNCHANGED << device_list, num_devices, tracker_ref, phase, enumerated,
                  last_add, sig_pc, sig_i, codec, unit_vars >>

\* rift_dk2_stop on instance r: the tracker reference is dropped and the
\* pointer cleared, tracking is disabled and the report rate set to 50;
\* io_get and io_send are the transport results inside
\* rift_dk2_set_report_rate, whose return value is ignored.
rift_dk2_stop(r, report, io_get, io_send) ==
  LET s == rift_dk2_set_report_rate(PrivOf(r), report, 50, io_get, io_send)
  IN [dev |-> WithPriv([r EXCEPT !.tracker = 0], s.priv),
      report |-> s.report,
      unref |-> r.tracker]

\* g_object_unref of tracker t (of NULL: nothing).
Unref(refs, t) ==
  IF t = 0 THEN refs ELSE [refs EXCEPT ![t] = IF @ > 0 THEN @ - 1 ELSE 0]

\* The class's stop: rift_dk2_stop, or the other classes' teardown.
ClassStop(r, report, io_get, io_send) ==
  IF r.class = "rift_dk2"
    THEN rift_dk2_stop(r, report, io_get, io_send)
    ELSE [dev |-> r, report |-> report, unref |-> 0]

\* ouvrt_rift_dk2_finalize and the generic finalize: the HMD drops its
\* tracker reference, the file handle is closed, the memory released.
\* Returns the tracker to unref.
FinalizeUnref(r) == IF r.class = "rift_dk2" THEN r.tracker ELSE 0

(* --------------------- the generic stop and release ------------------- *)

\* ouvrt_device_stop, first half: the active flag is cleared; the caller
\* then waits in g_thread_join.
StopBegin(r) == [r EXCEPT !.active = FALSE]

\* ouvrt_device_stop, second half, once the worker has returned: the
\* thread is joined and the class's stop runs.
StopFinish(r, report, io_get, io_send) ==
  ClassStop([r EXCEPT !.thread = "none"], report, io_get, io_send)

(* -------------------- ouvrtd.c: ouvrtd_device_remove ------------------ *)

\* An unlink that always takes the head of the registry.
RemoveHead(list, k) == [j \in 1 .. (Len(list) - 1) |-> list[j + 1]]

RemoveAt(list, k) ==
  [j \in 1 .. (Len(list) - 1) |-> IF j < k THEN list[j] ELSE list[j + 1]]

\* ouvrtd_device_remove up to g_list_remove_link: the first entry with the
\* event's devnode is unlinked from the registry.
ouvrtd_device_remove(h) ==
  /\ MonitorRuns
  /\ mon_pc = "idle"
  /\ LET k == FindCustom(device_list, dev, "devnode", h.devnode)
     IN IF k = 0
          THEN /\ last_add' = NULL
               /\ UNCHANGED << device_list, mon_pc, mon_dev >>
          ELSE /\ device_list' = RemoveAt(device_list, k)
               /\ mon_pc' = "rm_unref"
               /\ mon_dev' = device_list[k]
               /\ last_add' = IF last_add = h.devnode THEN last_add ELSE NULL
  /\ UNCHANGED << num_devices, dev, tracker_ref, hid_config, sig_pc, sig_i,
                  fault, codec, unit_vars >>

\* g_object_unref of the unlinked instance: dispose stops the device.  An
\* inactive device is finalized at once (its tracker reference dropped,
\* its handle closed, its memory released); an active one has its flag
\* cleared and the monitor thread waits for the worker.
ouvrtd_device_remove_unref ==
  /\ MonitorRuns
  /\ mon_pc = "rm_unref"
  /\ IF dev[mon_dev].active
       THEN /\ dev' = [dev EXCEPT ![mon_dev] = StopBegin(@)]
            /\ mon_pc' = "rm_join"
            /\ UNCHANGED << tracker_ref, num_devices, mon_dev, last_add >>
       ELSE /\ tracker_ref' = Unref(tracker_ref, FinalizeUnref(dev[mon_dev]))
            /\ dev' = [dev EXCEPT ![mon_dev] = FreedDev]
            /\ num_devices' = num_devices - 1
            /\ mon_pc' = "idle"
            /\ mon_dev' = 0
            /\ last_add' = NULL
  /\ UNCHANGED << device_list, hid_config, phase, enumerated, sig_pc, sig_i,
                  fault, codec, unit_vars >>

\* The join returns: the class's stop runs, then the instance is
\* finalized, and ouvrtd_device_remove ends with num_devices--.
ouvrtd_device_remove_join(io_get, io_send) ==
  /\ MonitorRuns
  /\ mon_pc = "rm_join"
  /\ dev[mon_dev].thread = "done"
  /\ LET s == StopFinish(dev[mon_dev], hid_config, io_get, io_send)
     IN /\ tracker_ref' =
             Unref(Unref(tracker_ref, s.unref), FinalizeUnref(s.dev))
        /\ hid_config' = s.report
  /\ dev' = [dev EXCEPT ![mon_dev] = FreedDev]
  /\ num_devices' = num_devices - 1
  /\ mon_pc' = "idle"
  /\ mon_dev' = 0
  /\ last_add' = NULL
  /\ UNCHANGED << device_list, phase, enumerated, sig_pc, sig_i, fault,
                  codec, unit_vars >>

(* --------------------- rift-dk2.c: rift_dk2_thread -------------------- *)

\* LoopCond of a worker that never looks at the active flag.
LoopCondAlways(r) == TRUE

\* The condition of the worker's while loop.
LoopCond(r) == r.active

\* The worker's first statements: a keepalive is sent, count = 0.
rift_dk2_thread_entry(d) ==
  /\ Running
  /\ dev[d].thread = "entry"
  /\ dev' = [dev EXCEPT ![d].thread = "check", ![d].count = 0]
  /\ UNCHANGED << device_list, num_devices, tracker_ref, hid_config, phase,
                  enumerated, mon_pc, mon_dev, last_add, sig_pc, sig_i,
                  fault, codec, unit_vars >>

\* The worker evaluates while (dev->active).
rift_dk2_thread_check(d) ==
  /\ Running
  /\ dev[d].thread = "check"
  /\ dev' = [dev EXCEPT ![d].thread =
               IF LoopCond(dev[d]) THEN "poll" ELSE "done"]
  /\ UNCHANGED << device_list, num_devices, tracker_ref, hid_config, phase,
                  enumerated, mon_pc, mon_dev, last_add, sig_pc, sig_i,
                  fault, codec, unit_vars >>

\* A loop that resends the keepalive on poll timeouts and errors only.
KeepaliveOnErrorOnly(r, ret) == ret = -1 \/ ret = 0

\* The condition under which an iteration sends a keepalive and resets
\* count instead of reading: poll failed or timed out, or count exceeds
\* 9 * report_rate.
SendsKeepalive(r, ret) ==
  ret = -1 \/ ret = 0 \/ r.count > 9 * r.report_rate

\* One iteration of the HMD worker's loop body on instance r: poll
\* returned ret, read returned rd, a full report carries timestamp ts.
\* fds.events holds POLLIN alone, so the break is never taken.
LoopBody(r, ret, rd, ts) ==
  IF SendsKeepalive(r, ret)
    THEN [r EXCEPT !.count = 0, !.thread = "check"]
  ELSE IF rd = -1 \/ rd < 64
    THEN [r EXCEPT !.thread = "check"]
  ELSE [r EXCEPT !.last_sample_timestamp = ts, !.count = r.count + 1,
                 !.thread = "check"]

\* The loop body of the other classes' workers: no state of this model.
OtherLoopBody(r) == [r EXCEPT !.thread = "check"]

rift_dk2_thread_poll(d, ret, rd, ts) ==
  /\ Running
  /\ dev[d].thread = "poll"
  /\ dev' = [dev EXCEPT ![d] =
               IF dev[d].class = "rift_dk2"
                 THEN LoopBody(@, ret, rd, ts)
                 ELSE OtherLoopBody(@)]
  /\ dev'[d].count <= MaxCount
  /\ UNCHANGED << device_list, num_devices, tracker_ref, hid_config, phase,
                  enumerated, mon_pc, mon_dev, last_add, sig_pc, sig_i,
                  fault, codec, unit_vars >>

(* -------------------- ouvrtd.c: ouvrtd_signal_handler ----------------- *)

\* SIGINT is delivered: the handler starts on the monitor thread's stack,
\* wherever that thread is, and g_list_foreach begins.
ouvrtd_signal_handler ==
  /\ Running
  /\ sig_pc = "none"
  /\ sig_pc' = "walk"
  /\ sig_i' = 1
  /\ UNCHANGED << device_list, num_devices, dev, tracker_ref, hid_config,
                  phase, enumerated, mon_pc, mon_dev, last_add, fault,
                  codec, unit_vars >>

\* g_list_foreach calls ouvrt_device_stop on the next entry: an inactive
\* device is skipped, an active one has its flag cleared.
signal_handler_stop ==
  /\ Running
  /\ sig_pc = "walk"
  /\ sig_i <= Len(device_list)
  /\ IF dev[device_list[sig_i]].active
       THEN /\ dev' = [dev EXCEPT ![device_list[sig_i]] = StopBegin(@)]
            /\ sig_pc' = "join"
            /\ sig_i' = sig_i
       ELSE /\ sig_i' = sig_i + 1
            /\ UNCHANGED << dev, sig_pc >>
  /\ UNCHANGED << device_list, num_devices, tracker_ref, hid_config, phase,
                  enumerated, mon_pc, mon_dev, last_add, fault, codec, unit_vars >>

\* The join inside the handler returns and the class's stop runs.
signal_handler_join(io_get, io_send) ==
  /\ Running
  /\ sig_pc = "join"
  /\ dev[device_list[sig_i]].thread = "done"
  /\ LET s == StopFinish(dev[device_list[sig_i]], hid_config, io_get, io_send)
     IN /\ dev' = [dev EXCEPT ![device_list[sig_i]] = s.dev]
        /\ tracker_ref' = Unref(tracker_ref, s.unref)
        /\ hid_config' = s.report
  /\ sig_pc' = "walk"
  /\ sig_i' = sig_i + 1
  /\ UNCHANGED << device_list, num_devices, phase, enumerated, mon_pc,
                  mon_dev, last_add, fault, codec, unit_vars >>

\* The walk is over: exit(0).
signal_handler_exit ==
  /\ Running
  /\ sig_pc = "walk"
  /\ sig_i > Len(device_list)
  /\ sig_pc' = "exited"
  /\ UNCHANGED << device_list, num_devices, dev, tracker_ref, hid_config,
                  phase, enumerated, mon_pc, mon_dev, last_add, sig_i, fault,
                  codec, unit_vars >>

(* ------------------- ouvrtd.c: startup and dispatch ------------------- *)

\* ouvrtd_enumerate: one present device, each at most once, as a
\* synthetic add.
ouvrtd_enumerate(h, made) ==
  /\ phase = "enumerate"
  /\ h \notin enumerated
  /\ ouvrtd_device_add(h, made)
  /\ enumerated' = enumerated \cup {h}
  /\ phase' = phase

\* ouvrtd_startup returns and g_main_loop_run begins.
ouvrtd_startup ==
  /\ MonitorRuns
  /\ phase = "enumerate"
  /\ mon_pc = "idle"
  /\ phase' = "monitor"
  /\ enumerated' = {}
  /\ UNCHANGED << device_list, num_devices, dev, tracker_ref, hid_config,
                  mon_pc, mon_dev, last_add, sig_pc, sig_i, fault, codec, unit_vars >>

\* udev_source_callback: one event of the monitor.
udev_source_callback(action, h, made) ==
  /\ phase = "monitor"
  /\ \/ action = "add" /\ ouvrtd_device_add(h, made)
     \/ action = "remove" /\ ouvrtd_device_remove(h)
  /\ UNCHANGED << phase, enumerated >>

Next ==
  \/ \E h \in Hardware, made \in BOOLEAN : ouvrtd_enumerate(h, made)
  \/ ouvrtd_startup
  \/ \E action \in {"add", "remove"}, h \in Hardware, made \in BOOLEAN :
       udev_source_callback(action, h, made)
  \/ \E fail \in StartSteps : ouvrt_device_start(fail)
  \/ ouvrtd_device_remove_unref
  \/ \E io_get \in {-1, 0}, io_send \in {-1, 0} :
       ouvrtd_device_remove_join(io_get, io_send)
  \/ \E d \in Inst : rift_dk2_thread_entry(d)
  \/ \E d \in Inst : rift_dk2_thread_check(d)
  \/ \E d \in Inst, ret \in {-1, 0, 1}, rd \in {-1, 10, 64},
        ts \in Timestamps : rift_dk2_thread_poll(d, ret, rd, ts)
  \/ ouvrtd_signal_handler
  \/ signal_handler_stop
  \/ \E io_get \in {-1, 0}, io_send \in {-1, 0} :
       signal_handler_join(io_get, io_send)
  \/ signal_handler_exit

Spec == Init /\ [][Next]_vars

(* ------------- the report rate negotiation on its own ----------------- *)

\* An opened HMD whose device holds any of the configuration reports, the
\* private data as ouvrt_rift_dk2_init leaves it.
RateInit ==
  /\ DaemonInit
  /\ hid_config = [sample_rate |-> 1000, packet_interval |-> 1]
  /\ codec \in
       { [NoCodec EXCEPT !.report =
            [sample_rate |-> sr, packet_interval |-> pi]] :
           sr \in SampleRates, pi \in PacketIntervals }
  /\ NoUnits

\* A call of rift_dk2_get_config.
get_config_call(io) ==
  /\ ~fault
  /\ \E g \in rift_dk2_get_config(codec.priv, codec.report, io) :
       /\ codec' = [codec EXCEPT !.priv = g.priv, !.op = "get_config",
                                 !.arg = 0, !.ret = g.ret]
       /\ fault' = g.fault
  /\ UNCHANGED << daemon_vars, unit_vars >>

\* A call of rift_dk2_set_report_rate(rift, report_rate).
set_report_rate_call(report_rate, io_get, io_send) ==
  /\ ~fault
  /\ LET s == rift_dk2_set_report_rate(codec.priv, codec.report,
                report_rate, io_get, io_send)
     IN codec' = [priv |-> s.priv, report |-> s.report,
                  op |-> "set_report_rate", arg |-> report_rate,
                  ret |-> s.ret]
  /\ UNCHANGED << daemon_vars, fault, unit_vars >>

RateNext ==
  \/ \E io \in {-1, 0} : get_config_call(io)
  \/ \E report_rate \in RequestedRates, io_get \in {-1, 0},
        io_send \in {-1, 0} :
       set_report_rate_call(report_rate, io_get, io_send)

RateSpec == RateInit /\ [][RateNext]_vars

(* ---------------- the daemon under a fair scheduler ------------------- *)

\* One step of the worker thread of instance d, wherever it stands.
rift_dk2_thread(d) ==
  \/ rift_dk2_thread_entry(d)
  \/ rift_dk2_thread_check(d)
  \/ \E ret \in {-1, 0, 1}, rd \in {-1, 10, 64}, ts \in Timestamps :
       rift_dk2_thread_poll(d, ret, rd, ts)

\* Every worker thread keeps running (poll returns within its timeout),
\* and a thread whose join can return does return.
LiveSpec ==
  /\ Spec
  /\ \A d \in Inst : WF_vars(rift_dk2_thread(d))
  /\ WF_vars(\E io_get \in {-1, 0}, io_send \in {-1, 0} :
               ouvrtd_device_remove_join(io_get, io_send))
  /\ WF_vars(\E io_get \in {-1, 0}, io_send \in {-1, 0} :
               signal_handler_join(io_get, io_send))

(* ------------------ the signature match on its own -------------------- *)

\* Add events around the signature table: the Rift DK2, events that
\* differ from a table entry in one component, the two Vive headset
\* interfaces, events with an attribute missing, and Rift DK2 ids on
\* USB interfaces 10 and 16.
Event(n, subsystem, interface, vid, pid) ==
  [devnode |-> n, subsystem |-> subsystem, interface |-> interface,
   vid |-> vid, pid |-> pid, serial |-> NULL]
AddEvents ==
  { Event("/dev/hidraw0", "hidraw", "00", "2833", "0021"),
    Event("/dev/hidraw1", "hidraw", "00", "28de", "0021"),
    Event("/dev/hidraw2", "hidraw", "00", "2833", "0201"),
    Event("/dev/hidraw3", "hidraw", "01", "2833", "0021"),
    Event("/dev/video1", "video4linux", "00", "2833", "0021"),
    Event("/dev/hidraw4", "hidraw", "00", "28de", "2000"),
    Event("/dev/hidraw5", "hidraw", "01", "28de", "2000"),
    Event("/dev/hidraw6", NULL, "00", "2833", "0021"),
    Event("/dev/hidraw7", "hidraw", NULL, "2833", "0021"),
    Event("/dev/hidraw8", "hidraw", "00", NULL, "0021"),
    Event("/dev/hidraw9", "hidraw", "00", "2833", NULL),
    Event("/dev/hidraw10", "hidraw", "0a", "2833", "0021"),
    Event("/dev/hidraw16", "hidraw", "10", "2833", "0021") }

\* The monitor dispatches the add event of h.
add_event(h, made) ==
  /\ phase = "monitor"
  /\ ouvrtd_device_add(h, made)
  /\ UNCHANGED << phase, enumerated >>

MatchNext ==
  \/ ouvrtd_startup
  \/ \E h \in AddEvents, made \in BOOLEAN : add_event(h, made)
  \/ \E fail \in StartSteps : ouvrt_device_start(fail)

MatchSpec == Init /\ [][MatchNext]_vars

(* ------------------- the HMD worker loop on its own ------------------- *)

\* Report rates of a started HMD.
WorkerRates == {5}

\* What woke the worker in an iteration that polled with ret and read rd
\* from private data r: a timeout, a poll error, the counter (no read), a
\* read error, a short report or a full report.
WakeOf(r, ret, rd) ==
  IF ret = 0 THEN "timeout"
  ELSE IF ret = -1 THEN "poll_error"
  ELSE IF SendsKeepalive(r, ret) THEN "counter"
  ELSE IF rd = -1 THEN "read_error"
  ELSE IF rd < 64 THEN "short"
  ELSE "full"

\* The events the worker asks poll for, and what poll can report back in
\* revents when it returns 1.
PollEvents == {"POLLIN"}
PollRevents ==
  { {"POLLIN"}, {"POLLIN", "POLLHUP"}, {"POLLERR"}, {"POLLNVAL"} }

\* A break that tests what poll reported.
PollBreakOnRevents(events, revents) ==
  revents \cap {"POLLERR", "POLLHUP", "POLLNVAL"} # {}

\* The test in front of the break: fds.events, the requested events,
\* against the three error flags.
PollBreak(events, revents) ==
  events \cap {"POLLERR", "POLLHUP", "POLLNVAL"} # {}

\* A started HMD whose worker is about to run.  wake: what the last
\* iteration woke up to; keepalive: a keepalive was sent since the last
\* wait on the handle; since: the full reports decoded since the last
\* keepalive; revents: what the last poll reported.
ThreadInit ==
  /\ DaemonInit
  /\ hid_config = [sample_rate |-> 1000, packet_interval |-> 1]
  /\ codec = NoCodec
  /\ decode = NoUnit
  /\ enumeration = NoUnit
  /\ \E rate \in WorkerRates :
       worker = [r |-> [active |-> TRUE, thread |-> "entry", count |-> 0,
                        report_rate |-> rate, last_sample_timestamp |-> 0],
                 wake |-> "none", keepalive |-> FALSE, since |-> 0,
                 revents |-> {}]

\* rift_dk2_thread up to the loop: a keepalive is sent, count = 0.
worker_entry ==
  /\ worker.r.thread = "entry"
  /\ worker' = [worker EXCEPT !.r.thread = "check", !.r.count = 0,
                              !.keepalive = TRUE, !.since = 0]
  /\ UNCHANGED << daemon_vars, fault, codec, decode, enumeration >>

\* while (dev->active).
worker_check ==
  /\ worker.r.thread = "check"
  /\ worker' = [worker EXCEPT !.r.thread =
                  IF LoopCond(worker.r) THEN "poll" ELSE "done"]
  /\ UNCHANGED << daemon_vars, fault, codec, decode, enumeration >>

\* One iteration of the loop body: the wait on the handle and what
\* follows it.  In the program count never passes 9 * report_rate + 1;
\* the guard ends a run whose counter does.
worker_poll(ret, revents, rd, ts) ==
  /\ worker.r.thread = "poll"
  /\ worker' =
       [r |-> IF ~SendsKeepalive(worker.r, ret)
                   /\ PollBreak(PollEvents, revents)
                THEN [worker.r EXCEPT !.thread = "done"]
                ELSE LoopBody(worker.r, ret, rd, ts),
        revents |-> IF ret = 1 THEN revents ELSE {},
        wake |-> WakeOf(worker.r, ret, rd),
        keepalive |-> SendsKeepalive(worker.r, ret),
        since |-> IF SendsKeepalive(worker.r, ret) THEN 0
                  ELSE IF WakeOf(worker.r, ret, rd) = "full"
                    THEN worker.since + 1
                  ELSE worker.since]
  /\ worker'.since <= 9 * worker.r.report_rate + 2
  /\ UNCHANGED << daemon_vars, fault, codec, decode, enumeration >>

\* ouvrt_device_stop clears the active flag.
worker_stop ==
  /\ worker.r.active
  /\ worker.r.thread # "entry"
  /\ worker' = [worker EXCEPT !.r.active = FALSE]
  /\ UNCHANGED << daemon_vars, fault, codec, decode, enumeration >>

ThreadNext ==
  \/ worker_entry
  \/ worker_check
  \/ \E ret \in {-1, 0, 1}, revents \in PollRevents, rd \in {-1, 10, 64},
        ts \in Timestamps : worker_poll(ret, revents, rd, ts)
  \/ worker_stop

ThreadSpec == ThreadInit /\ [][ThreadNext]_vars

(* ---------------- 32-bit words, as the C operators see them ----------- *)

\* A uint32_t is its 32 bits, bit 0 the least significant.
WordBits == 0 .. 31
Pow2(n) == 2 ^ n
BitOf(n, k) == (n \div Pow2(k)) % 2

\* The word of a non-negative constant below 2^31 (every mask of the code).
WordOf(n) == [i \in WordBits |-> IF i = 31 THEN 0 ELSE BitOf(n, i)]

\* w << n, w >> n on uint32_t, and (int32_t)w >> n.
Shl(w, n) == [i \in WordBits |-> IF i >= n THEN w[i - n] ELSE 0]
Shr(w, n) == [i \in WordBits |-> IF i + n <= 31 THEN w[i + n] ELSE 0]
Sar(w, n) == [i \in WordBits |-> IF i + n <= 31 THEN w[i + n] ELSE w[31]]
BitOr(a, b) == [i \in WordBits |-> IF a[i] = 1 \/ b[i] = 1 THEN 1 ELSE 0]
BitAnd(a, b) == [i \in WordBits |-> IF a[i] = 1 /\ b[i] = 1 THEN 1 ELSE 0]
BitNot(a) == [i \in WordBits |-> 1 - a[i]]

RECURSIVE LowBits(_, _)
\* The unsigned value of bits 0 .. n-1 of w (n at most 31).
LowBits(w, n) ==
  IF n = 0 THEN 0 ELSE LowBits(w, n - 1) + w[n - 1] * Pow2(n - 1)

\* The value of w as an int32_t.
Int32(w) ==
  IF w[31] = 1 THEN (LowBits(w, 31) - 1073741824) - 1073741824
  ELSE LowBits(w, 31)

\* __be32_to_cpup on the four bytes of memory mem at offset p.
be32_to_cpup(mem, p) ==
  [i \in WordBits |-> BitOf(mem[p + 3 - (i \div 8)], i % 8)]

(* --------------------- rift-dk2.c: unpack_3x21bit --------------------- *)

\* sizeof(__be64): the unit of pointer arithmetic on the buf argument.
SizeofBe64 == 8

\* unpack_3x21bit(buf, v) on memory mem with buf at offset p: the three
\* integers that are multiplied by 0.0001f.  The second word is read at
\* buf + 4, four elements of __be64 after buf.
unpack_3x21bit(mem, p) ==
  LET xy == be32_to_cpup(mem, p)
      yz == be32_to_cpup(mem, p + 4 * SizeofBe64)
  IN [x |-> Int32(Sar(xy, 11)),
      y |-> Int32(Sar(BitOr(Shl(xy, 21), Shr(yz, 11)), 11)),
      z |-> Int32(Sar(Shl(yz, 10), 11))]

\* The device's packing of a triple of signed 21-bit integers: x in bits
\* 63..43, y in bits 42..22, z in bits 21..1 of eight big-endian bytes
\* (byte 0 holds bits 63..56).
Field21(n) == IF n < 0 THEN n + 2097152 ELSE n
PackedBit(v, b) ==
  IF b >= 43 THEN BitOf(Field21(v.x), b - 43)
  ELSE IF b >= 22 THEN BitOf(Field21(v.y), b - 22)
  ELSE IF b >= 1 THEN BitOf(Field21(v.z), b - 1)
  ELSE 0
PackedByte(v, k) ==
  LET top == 63 - 8 * k
  IN PackedBit(v, top) * 128 + PackedBit(v, top - 1) * 64
     + PackedBit(v, top - 2) * 32 + PackedBit(v, top - 3) * 16
     + PackedBit(v, top - 4) * 8 + PackedBit(v, top - 5) * 4
     + PackedBit(v, top - 6) * 2 + PackedBit(v, top - 7)

(* -------------- rift-dk2.c: rift_dk2_decode_sensor_message ------------ *)

\* sizeof(struct rift_dk2_sensor_message), and the offsets of its fields.
MessageSize == 64
OffNumSamples == 3
OffTemperature == 6
OffTimestamp == 8
OffSample == 12
SizeofSample == 16
OffGyro == 8
OffMag == 44
OffFrameTimestamp == 52

\* Bytes of a little-endian 16-bit and 32-bit field holding n.
Le16Byte(n, k) ==
  ((IF n < 0 THEN n + 65536 ELSE n) \div Pow2(8 * k)) % 256
Le32Byte(n, k) == (n \div Pow2(8 * k)) % 256

\* __le16_to_cpu into an int16_t, __le32_to_cpu into a uint32_t.  A
\* uint32_t of 2^31 or more is carried as the integer 2^32 below it, the
\* int32_t of the same 32 bits.
le16_to_int16(mem, p) ==
  LET u == mem[p] + 256 * mem[p + 1]
  IN IF u >= 32768 THEN u - 65536 ELSE u
le32_to_cpu(mem, p) ==
  mem[p] + 256 * mem[p + 1] + 65536 * mem[p + 2]
    + 16777216 * (IF mem[p + 3] >= 128 THEN mem[p + 3] - 256 ELSE mem[p + 3])

\* a - b on uint32_t, wrapping at 2^32, assigned to an int32_t: computed
\* on 16-bit halves with a borrow.
Sub32(a, b) ==
  LET lo == (a % 65536) - (b % 65536)
      borrow == IF lo < 0 THEN 1 ELSE 0
      hi == ((a \div 65536) - (b \div 65536) - borrow) % 65536
  IN (IF hi >= 32768 THEN hi - 65536 ELSE hi) * 65536 + lo + 65536 * borrow

\* The 64 bytes of the periodic message m as the device sends it; the
\* fields this model gives no value are zero.
MessageByte(m, o) ==
  IF o = 0 THEN 11
  ELSE IF o = OffNumSamples THEN m.num_samples
  ELSE IF o \in OffTemperature .. OffTemperature + 1
    THEN Le16Byte(m.temperature, o - OffTemperature)
  ELSE IF o \in OffTimestamp .. OffTimestamp + 3
    THEN Le32Byte(m.timestamp, o - OffTimestamp)
  ELSE IF o \in OffSample .. OffMag - 1
    THEN LET i == (o - OffSample) \div SizeofSample
             r == (o - OffSample) % SizeofSample
         IN IF r < OffGyro THEN PackedByte(m.sample[i + 1].accel, r)
            ELSE PackedByte(m.sample[i + 1].gyro, r - OffGyro)
  ELSE IF o \in OffMag .. OffMag + 5
    THEN Le16Byte(m.mag[(o - OffMag) \div 2 + 1], (o - OffMag) % 2)
  ELSE IF o \in OffFrameTimestamp .. OffFrameTimestamp + 3
    THEN Le32Byte(m.frame_timestamp, o - OffFrameTimestamp)
  ELSE 0

\* The worker's memory during a decode: buf[64] holding the message, and
\* after it the bytes that follow buf on the worker's stack, all stray.
MemTop == MessageSize + 4 * SizeofBe64 + 3
Memory(m, stray) ==
  [o \in 0 .. MemTop |-> IF o < MessageSize THEN MessageByte(m, o) ELSE stray]

\* The offsets unpack_3x21bit reads for a field at offset p.
unpack_reads(p) ==
  (p .. p + 3) \cup (p + 4 * SizeofBe64 .. p + 4 * SizeofBe64 + 3)

\* rift_dk2_decode_sensor_message(rift, buf, len) on memory mem with the
\* private data priv: the private data afterwards, the samples handed to
\* debug_imu_fifo_in in order, whether the drift line was printed, and
\* the offsets of buf the sample loop read.
rift_dk2_decode_sensor_message(priv, mem, len) ==
  IF len < MessageSize
    THEN [priv |-> priv, out |-> << >>, logged |-> FALSE, reads |-> {}]
  ELSE
    LET num_samples == mem[OffNumSamples]
        temperature == le16_to_int16(mem, OffTemperature)
        sample_timestamp == le32_to_cpu(mem, OffTimestamp)
        dt == Sub32(sample_timestamp, priv.last_sample_timestamp)
        mag == [k \in 1 .. 3 |-> le16_to_int16(mem, OffMag + 2 * (k - 1))]
        n == IF num_samples > 1 THEN 2 ELSE 1
        accel(i) == OffSample + SizeofSample * i
        gyro(i) == OffSample + SizeofSample * i + OffGyro
    IN [priv |-> [priv EXCEPT !.last_sample_timestamp = sample_timestamp],
        out |-> [i \in 1 .. n |->
                  [time |-> sample_timestamp,
                   temperature |-> temperature,
                   magnetic_field |-> mag,
                   acceleration |-> unpack_3x21bit(mem, accel(i - 1)),
                   angular_velocity |-> unpack_3x21bit(mem, gyro(i - 1))]],
        logged |-> \/ dt < priv.report_interval - 1
                   \/ dt > priv.report_interval + 1
                   \/ 1000 * num_samples # priv.report_interval,
        reads |-> UNION { unpack_reads(accel(i)) \cup unpack_reads(gyro(i)) :
                          i \in 0 .. n - 1 }]

(* ------- rift-dk2.c: rift_dk2_get_positions, rift_dk2_get_led_patterns -- *)

\* The bound on the number of LEDs and on the number of position records
\* (the LEDs and the IMU), scaled down from the headset's 40 and 41.
MAX_LEDS == 2
MAX_POSITIONS == MAX_LEDS + 1

\* The check of a blink pattern's bit layout, on the uint32_t wire value.
led_pattern_valid(pattern) ==
  BitAnd(pattern, BitNot(WordOf(\haaaaa))) = WordOf(\h55555)

\* The variant of the conversion without its last fold.
led_pattern_convert_short(pattern) ==
  LET p1 == BitAnd(pattern, WordOf(\haaaaa))
      p2 == BitAnd(BitOr(p1, Shr(p1, 1)), WordOf(\h66666))
      p3 == BitAnd(BitOr(p2, Shr(p2, 2)), WordOf(\he1e1e))
      p4 == BitAnd(BitOr(p3, Shr(p3, 4)), WordOf(\he01fe))
  IN LowBits(BitAnd(Shr(p4, 1), WordOf(\h3ff)), 16)

\* The conversion of a valid pattern into ten single-bit values, as the
\* uint16_t stored in leds.patterns[].
led_pattern_convert(pattern) ==
  LET p1 == BitAnd(pattern, WordOf(\haaaaa))
      p2 == BitAnd(BitOr(p1, Shr(p1, 1)), WordOf(\h66666))
      p3 == BitAnd(BitOr(p2, Shr(p2, 2)), WordOf(\he1e1e))
      p4 == BitAnd(BitOr(p3, Shr(p3, 4)), WordOf(\he01fe))
      p5 == BitOr(p4, Shr(p4, 8))
  IN LowBits(BitAnd(Shr(p5, 1), WordOf(\h3ff)), 16)

\* The LED table and the IMU offset of an instance after g_object_new.
LedTable0 ==
  [positions |-> [k \in 0 .. MAX_POSITIONS - 1 |-> 0],
   directions |-> [k \in 0 .. MAX_POSITIONS - 1 |-> 0],
   patterns |-> [k \in 0 .. MAX_LEDS - 1 |-> 0],
   num |-> 0, imu_position |-> 0]

RECURSIVE positions_loop(_, _, _, _)
\* The for loop of rift_dk2_get_positions at iteration i: tab is the LED
\* table and IMU offset so far, resp the device's answers in order (the
\* report of this iteration is resp[i + 1]), num the count of the first
\* answer.  Yields the return value, the table, and the number of get
\* requests issued.
positions_loop(tab, resp, num, i) ==
  LET report == resp[i + 1]
      type == report.type % 256
      stored ==
        IF type = 0
          THEN [tab EXCEPT !.positions[report.index] = report.val,
                           !.directions[report.index] = report.val]
        ELSE IF type = 1 THEN [tab EXCEPT !.imu_position = report.val]
        ELSE tab
  IN IF report.index >= num
       THEN [ret |-> -1, tab |-> tab, gets |-> i + 1]
     ELSE IF i + 1 = num
       THEN [ret |-> 0, tab |-> [stored EXCEPT !.num = num - 1],
             gets |-> i + 1]
     ELSE IF resp[i + 2].ret < 0
       THEN [ret |-> resp[i + 2].ret, tab |-> stored, gets |-> i + 2]
     ELSE positions_loop(stored, resp, num, i + 1)

rift_dk2_get_positions(tab, resp, num) ==
  IF resp[1].ret < 0 THEN [ret |-> resp[1].ret, tab |-> tab, gets |-> 1]
  ELSE IF num > MAX_POSITIONS THEN [ret |-> -1, tab |-> tab, gets |-> 1]
  ELSE positions_loop(tab, resp, num, 0)

RECURSIVE led_patterns_loop(_, _, _, _)
\* The for loop of rift_dk2_get_led_patterns at iteration i.
led_patterns_loop(tab, resp, num, i) ==
  LET report == resp[i + 1]
      pattern == WordOf(report.pattern)
      stored ==
        [tab EXCEPT !.patterns[report.index] = led_pattern_convert(pattern)]
  IN IF report.index >= num
       THEN [ret |-> -1, tab |-> tab, gets |-> i + 1]
     ELSE IF report.pattern_length # 10
       THEN [ret |-> -1, tab |-> tab, gets |-> i + 1]
     ELSE IF ~led_pattern_valid(pattern)
       THEN [ret |-> -1, tab |-> tab, gets |-> i + 1]
     ELSE IF i + 1 = num
       THEN [ret |-> 0, tab |-> stored, gets |-> i + 1]
     ELSE IF resp[i + 2].ret < 0
       THEN [ret |-> resp[i + 2].ret, tab |-> stored, gets |-> i + 2]
     ELSE led_patterns_loop(stored, resp, num, i + 1)

rift_dk2_get_led_patterns(tab, resp, num) ==
  IF resp[1].ret < 0 THEN [ret |-> resp[1].ret, tab |-> tab, gets |-> 1]
  ELSE IF num > MAX_LEDS THEN [ret |-> -1, tab |-> tab, gets |-> 1]
  ELSE led_patterns_loop(tab, resp, num, 0)

(* ------------- the sensor message decode on its own ------------------- *)

\* Triples of signed 21-bit integers an IMU field carries.
Triples ==
  { [x |-> 1234, y |-> -5678, z |-> 9], [x |-> 0, y |-> 0, z |-> 0],
    [x |-> -1, y |-> -1, z |-> -1],
    [x |-> 1048575, y |-> -1048576, z |-> 1] }

\* Periodic messages: one, two or (claimed) three samples, the second
\* sample slot holding the first one's fields exchanged.
Messages ==
  { [num_samples |-> n, temperature |-> t, timestamp |-> ts,
     sample |-> << [accel |-> a, gyro |-> g], [accel |-> g, gyro |-> a] >>,
     mag |-> mg, frame_timestamp |-> 0] :
      n \in {1, 2, 3}, t \in {-100}, ts \in {500, 2000},
      a \in Triples, g \in Triples,
      mg \in { << 0, 0, 0 >>, << 100, -200, 300 >> } }

\* Private data a decode starts from: the previous message's timestamp
\* (-500 is the uint32_t 500 below the counter's wrap) and the configured
\* report interval.
DecodePrivs ==
  { [last_sample_timestamp |-> l, report_interval |-> ri] :
      l \in {0, 1000, -500}, ri \in {1000, 2000} }

\* Values of the bytes that follow buf on the worker's stack.
StrayBytes == {0, 255}

\* Two runs of the decode on one message, each from its own private data.
Runs == 1 .. 2

DecodeInit ==
  /\ DaemonInit
  /\ hid_config = [sample_rate |-> 1000, packet_interval |-> 1]
  /\ codec = NoCodec
  /\ enumeration = NoUnit
  /\ worker = NoUnit
  /\ decode \in
       { [message |-> m, priv |-> << pa, pb >>, called |-> FALSE,
          out |-> << << >>, << >> >>, logged |-> << FALSE, FALSE >>,
          reads |-> {}] :
           m \in Messages, pa \in DecodePrivs, pb \in DecodePrivs }

\* The worker hands buf to rift_dk2_decode_sensor_message, in each run;
\* stray[r] is what run r finds after buf.
decode_sensor_message_call(stray) ==
  /\ ~decode.called
  /\ \E mem1 \in {Memory(decode.message, stray[1])},
        mem2 \in {Memory(decode.message, stray[2])} :
       \E r1 \in {rift_dk2_decode_sensor_message(decode.priv[1], mem1,
                    MessageSize)},
          r2 \in {rift_dk2_decode_sensor_message(decode.priv[2], mem2,
                    MessageSize)} :
         decode' = [decode EXCEPT
                      !.called = TRUE,
                      !.priv = << r1.priv, r2.priv >>,
                      !.out = << r1.out, r2.out >>,
                      !.logged = << r1.logged, r2.logged >>,
                      !.reads = r1.reads \cup r2.reads]
  /\ UNCHANGED << daemon_vars, fault, codec, enumeration, worker >>

DecodeNext ==
  \E stray \in [Runs -> StrayBytes] : decode_sensor_message_call(stray)

DecodeSpec == DecodeInit /\ [][DecodeNext]_vars

(* ------------- the multi-record enumerations on their own ------------- *)

\* Symbol k of a wire pattern, and the wire pattern of ten symbols that
\* are dark (0b01) or bright (0b11) as the bits of s say.
SymbolOf(p, k) == (p \div Pow2(2 * k)) % 4
RECURSIVE Spread(_, _)
Spread(s, n) ==
  IF n = 0 THEN 0
  ELSE Spread(s, n - 1) + (1 + 2 * BitOf(s, n - 1)) * Pow2(2 * (n - 1))

\* p with symbol k replaced by v.
WithSymbol(p, k, v) == p + (v - SymbolOf(p, k)) * Pow2(2 * k)

\* Wire patterns: every well-formed one; all-bright and all-dark with one
\* symbol replaced by 0b00 or 0b10; well-formed ones with a bit above
\* bit 19 set.
WidePatterns ==
  { Spread(s, 10) : s \in 0 .. 1023 }
    \cup { WithSymbol(p, k, v) :
             p \in {\hfffff, \h55555}, k \in 0 .. 9, v \in {0, 2} }
    \cup { \h155555, \h1fffff, \h40055555, \h555555 }

\* The patterns the answers of a longer enumeration carry.
SmallPatterns == { \hfffff, \hffffd }

\* Answers of the device to the position gets: the get of answer f fails
\* (none if f = 0), answer j carries index ix[j], the record with index
\* imu is the IMU's, and the value of answer j is j.
PositionRuns ==
  { [routine |-> "positions", num |-> n,
     resp |-> [j \in 1 .. MAX_POSITIONS |->
                [ret |-> IF j = f THEN -1 ELSE 0, index |-> ix[j],
                 type |-> IF ix[j] = imu THEN 1 ELSE 0, val |-> j]]] :
      ix \in [1 .. MAX_POSITIONS -> 0 .. MAX_POSITIONS],
      f \in 0 .. MAX_POSITIONS, n \in 0 .. MAX_POSITIONS + 1,
      imu \in 0 .. MAX_POSITIONS }

\* The 16-bit type discriminators a position record carries: LED, IMU
\* offset, and values that are neither.
RecordTypes == {0, 1, 2, 256}

\* Answers of a device with two position records, in index order, each
\* carrying any of the type discriminators.
TypedRuns ==
  { [routine |-> "positions", num |-> 2,
     resp |-> [j \in 1 .. MAX_POSITIONS |->
                [ret |-> 0, index |-> j - 1, type |-> tp[j], val |-> j]]] :
      tp \in [1 .. MAX_POSITIONS -> RecordTypes] }

\* Answers to the pattern gets: answer l has pattern_length 9 (none if
\* l = 0).
PatternRuns ==
  { [routine |-> "patterns", num |-> n,
     resp |-> [j \in 1 .. MAX_LEDS |->
                [ret |-> IF j = f THEN -1 ELSE 0, index |-> ix[j],
                 pattern_length |-> IF j = l THEN 9 ELSE 10,
                 pattern |-> pt[j]]]] :
      ix \in [1 .. MAX_LEDS -> 0 .. MAX_LEDS],
      pt \in [1 .. MAX_LEDS -> SmallPatterns],
      f \in 0 .. MAX_LEDS, l \in 0 .. MAX_LEDS, n \in 0 .. MAX_LEDS + 1 }

\* A device with one LED answering with any of the wire patterns.
WideRuns ==
  { [routine |-> "patterns", num |-> 1,
     resp |-> << [ret |-> 0, index |-> 0, pattern_length |-> 10,
                  pattern |-> p] >>] : p \in WidePatterns }

EnumInit ==
  /\ DaemonInit
  /\ hid_config = [sample_rate |-> 1000, packet_interval |-> 1]
  /\ codec = NoCodec
  /\ decode = NoUnit
  /\ worker = NoUnit
  /\ \E run \in PositionRuns \cup TypedRuns \cup PatternRuns \cup WideRuns :
       enumeration = [routine |-> run.routine, num |-> run.num,
                      resp |-> run.resp, called |-> FALSE, ret |-> 0,
                      tab |-> LedTable0, gets |-> 0]

\* rift_dk2_start calls rift_dk2_get_positions.
get_positions_call ==
  /\ enumeration.routine = "positions"
  /\ ~enumeration.called
  /\ \E r \in {rift_dk2_get_positions(enumeration.tab, enumeration.resp,
                 enumeration.num)} :
       enumeration' = [enumeration EXCEPT !.called = TRUE, !.ret = r.ret,
                                          !.tab = r.tab, !.gets = r.gets]
  /\ UNCHANGED << daemon_vars, fault, codec, decode, worker >>

\* rift_dk2_start calls rift_dk2_get_led_patterns.
get_led_patterns_call ==
  /\ enumeration.routine = "patterns"
  /\ ~enumeration.called
  /\ \E r \in {rift_dk2_get_led_patterns(enumeration.tab, enumeration.resp,
                 enumeration.num)} :
       enumeration' = [enumeration EXCEPT !.called = TRUE, !.ret = r.ret,
                                          !.tab = r.tab, !.gets = r.gets]
  /\ UNCHANGED << daemon_vars, fault, codec, decode, worker >>

EnumNext == get_positions_call \/ get_led_patterns_call

EnumSpec == EnumInit /\ [][EnumNext]_vars

(* ------------------------------ claims -------------------------------- *)

Registered(d) == \E k \in 1 .. Len(device_list) : device_list[k] = d

\* C1: no two registry entries have the same device-node path.
C1_UniqueDevnode ==
  \A i, j \in 1 .. Len(device_list) :
    i # j => dev[device_list[i]].devnode # dev[device_list[j]].devnode

\* C2: when an add event appends an instance and the registry held exactly
\* one instance with the same serial, the two being a camera and an HMD
\* (in either order), the two hold the same tracker handle, which is not
\* NULL; and the start that ends the add event changes no tracker handle.
C2_PairSharesTracker ==
  [][ /\ (Len(device_list') = Len(device_list) + 1) =>
           LET d == device_list'[Len(device_list')]
               same == { k \in 1 .. Len(device_list) :
                           dev[device_list[k]].serial = dev'[d].serial }
           IN (dev'[d].serial # NULL /\ Cardinality(same) = 1) =>
                LET e == device_list[CHOOSE k \in same : TRUE]
                IN ({dev'[d].class, dev'[e].class} =
                      {"camera_dk2", "rift_dk2"}) =>
                     /\ dev'[d].tracker = dev'[e].tracker
                     /\ dev'[d].tracker # 0
      /\ (mon_pc = "add_start" /\ mon_pc' = "idle") =>
           \A d \in Inst : dev'[d].tracker = dev[d].tracker
    ]_vars

\* C2 witness: the camera was added first, then the HMD, both adds are
\* processed and the two share the HMD's tracker.
C2_Witness ==
  /\ Len(device_list) = 2
  /\ mon_pc = "idle"
  /\ dev[device_list[1]].class = "camera_dk2"
  /\ dev[device_list[2]].class = "rift_dk2"
  /\ dev[device_list[1]].serial = dev[device_list[2]].serial
  /\ dev[device_list[1]].tracker = dev[device_list[2]].tracker
  /\ dev[device_list[2]].tracker # 0

\* C3: a tracker a registered device references is live (its reference
\* count is not 0).
C3_TrackerLiveWhileHeld ==
  \A k \in 1 .. Len(device_list) :
    dev[device_list[k]].tracker # 0 =>
      tracker_ref[dev[device_list[k]].tracker] > 0

\* C4: an HMD whose start returned an error after the device file was
\* opened has no open file handle and no worker thread.
C4_FailedStartLeavesNothing ==
  \A d \in Inst :
    (dev[d].class = "rift_dk2" /\
     dev[d].bringup \in {"positions", "patterns", "config", "rate",
                         "tracking", "display"}) =>
      (dev[d].fd = NoFd /\ dev[d].thread = "none")

\* C5: an instance's file handle is open if and only if its active flag
\* is set.
C5_OpenIffActive ==
  \A d \in Inst :
    dev[d].alloc = "live" => ((dev[d].fd # NoFd) <=> dev[d].active)

\* C6: when the remove event that immediately follows an add event for
\* the same device-node path has been processed, the registry has no
\* entry for the path, and every instance of the path has its file handle
\* closed and no worker thread.
C6_AddThenRemove ==
  [][ (mon_pc \in {"rm_unref", "rm_join"} /\ mon_pc' = "idle" /\
       last_add # NULL) =>
        /\ \A k \in 1 .. Len(device_list') :
             dev'[device_list'[k]].devnode # last_add
        /\ \A d \in Inst :
             dev[d].devnode = last_add =>
               (dev'[d].fd = NoFd /\ dev'[d].thread = "none")
    ]_vars

\* C7: when the process has exited through the signal handler, every
\* instance that exists (started and not yet released by a remove) has
\* been stopped: its flag is clear and its worker joined.
C7_ShutdownStopsAll ==
  sig_pc = "exited" =>
    \A d \in Inst :
      dev[d].alloc = "live" => (~dev[d].active /\ dev[d].thread = "none")

WorkerAlive(d) == dev[d].thread \in {"entry", "check", "poll"}

\* C8: a worker whose active flag is cleared leaves its loop (unless the
\* process ends first): it never begins another iteration once it has
\* seen the flag; the join in the remove handler and the join in the
\* signal handler return.
C8_StopReturns ==
  /\ \A d \in Inst :
       (WorkerAlive(d) /\ ~dev[d].active) ~> (~WorkerAlive(d) \/ ~Running)
  /\ [][ \A d \in Inst :
           (dev[d].thread = "check" /\ ~dev[d].active) =>
             dev'[d].thread \in {"check", "done"} ]_vars
  /\ (mon_pc = "rm_join") ~> (mon_pc = "idle" \/ ~MonitorRuns)
  /\ (sig_pc = "join") ~> (sig_pc = "walk" \/ ~Running)

\* C8 witness: the HMD of a camera and HMD pair sharing one tracker is
\* being removed: its flag is cleared, its worker has left the loop and
\* the join is about to return.
C8_Witness ==
  /\ mon_pc = "rm_join"
  /\ dev[mon_dev].class = "rift_dk2"
  /\ dev[mon_dev].thread = "done"
  /\ \E k \in 1 .. Len(device_list) :
       /\ dev[device_list[k]].class = "camera_dk2"
       /\ dev[device_list[k]].tracker = dev[mon_dev].tracker
       /\ WorkerAlive(device_list[k])

\* C9: no call divides by zero, and after a successful get_config or
\* set_report_rate the stored report_rate is in [5, sample_rate] and the
\* stored report_interval is 1000000 div report_rate.
C9_RateInRange ==
  /\ ~fault
  /\ (codec.op # "none" /\ codec.ret = 0) =>
       /\ codec.priv.report_rate >= 5
       /\ codec.priv.report_rate <= codec.report.sample_rate
       /\ codec.priv.report_interval = 1000000 \div codec.priv.report_rate

\* C10: after a successful set_report_rate, a get_config on the device
\* (which applied the written report) leaves the stored rate and interval
\* unchanged, and the written packet_interval is
\* sample_rate div stored rate - 1.
C10_StoresAchievedRate ==
  (codec.op = "set_report_rate" /\ codec.ret = 0) =>
    /\ \A g \in rift_dk2_get_config(codec.priv, codec.report, 0) :
         ~g.fault /\ g.priv = codec.priv
    /\ codec.report.packet_interval =
         codec.report.sample_rate \div codec.priv.report_rate - 1

\* The first sample a run forwarded.
FirstOut(k) == decode.out[k][1]

\* C11: unpacking inverts the device's packing: the acceleration decoded
\* from the 8-byte field of the first sample slot is the triple (x, y, z)
\* that field packs, sign included.
C11_UnpackInvertsPack ==
  decode.called =>
    \A k \in Runs : FirstOut(k).acceleration = decode.message.sample[1].accel

\* The reference reading of a wire pattern: malformed if a symbol is
\* neither 0b01 nor 0b11 or a bit above bit 19 is set; bit k of the
\* signature is 1 exactly when symbol k is 0b11.
Malformed(p) ==
  \/ \E k \in 0 .. 9 : SymbolOf(p, k) \notin {1, 3}
  \/ p >= 1048576
RECURSIVE Signature(_, _)
Signature(p, n) ==
  IF n = 0 THEN 0
  ELSE Signature(p, n - 1)
       + (IF SymbolOf(p, n - 1) = 3 THEN Pow2(n - 1) ELSE 0)

\* A pattern enumeration ran and its first answer arrived, in range and
\* with the right pattern length.
FirstPatternRead ==
  /\ enumeration.called
  /\ enumeration.routine = "patterns"
  /\ enumeration.num <= MAX_LEDS
  /\ enumeration.resp[1].ret = 0
  /\ enumeration.resp[1].index < enumeration.num
  /\ enumeration.resp[1].pattern_length = 10

\* C12: the enumeration aborts at a pattern exactly when the pattern is
\* malformed (a symbol outside {0b01, 0b11} or a bit above bit 19), and
\* a well-formed pattern is stored as the 10-bit signature of its bright
\* symbols.
C12_PatternDecode ==
  FirstPatternRead =>
    LET a == enumeration.resp[1]
    IN /\ Malformed(a.pattern) <=>
            (enumeration.ret = -1 /\ enumeration.gets = 1)
       /\ (~Malformed(a.pattern) /\ enumeration.gets = 1) =>
            enumeration.tab.patterns[a.index] = Signature(a.pattern, 10)

\* C12 witness: all-bright was stored as 0x3FF.
C12_Witness ==
  /\ FirstPatternRead
  /\ enumeration.resp[1].pattern = \hfffff
  /\ enumeration.ret = 0
  /\ enumeration.tab.patterns[enumeration.resp[1].index] = \h3ff

Isolated(mem, p) ==
  [o \in DOMAIN mem |-> IF o \in p .. p + 7 THEN mem[o] ELSE 0]

\* C17: decoding a 64-byte message reads offsets 0..63 only, and every
\* decoded acceleration and angular velocity depends on the 8 bytes of
\* its own field alone: it is what the field decodes to with every other
\* byte of memory cleared.
C17_DecodeStaysInFields ==
  decode.called =>
    /\ decode.reads \subseteq 0 .. MessageSize - 1
    /\ \A k \in Runs : \A i \in 1 .. Len(decode.out[k]) :
         LET mem == Memory(decode.message, 0)
             accel == OffSample + SizeofSample * (i - 1)
             gyro == accel + OffGyro
         IN /\ decode.out[k][i].acceleration
                 = unpack_3x21bit(Isolated(mem, accel), accel)
            /\ decode.out[k][i].angular_velocity
                 = unpack_3x21bit(Isolated(mem, gyro), gyro)

\* The USB interface number a bInterfaceNumber attribute stands for.
InterfaceNumber(str) ==
  CASE str = "00" -> 0
    [] str = "01" -> 1
    [] str = "0a" -> 10
    [] str = "10" -> 16

\* The 4-tuple of event h equals that of table entry i.
TupleEquals(h, i) ==
  /\ ~AttrMissing(h)
  /\ h.vid = device_matches[i].vid
  /\ h.pid = device_matches[i].pid
  /\ h.subsystem = device_matches[i].subsystem
  /\ InterfaceNumber(h.interface) = device_matches[i].interface

\* C14: an add event creates an instance exactly when its (vendor id,
\* product id, subsystem, interface number) equals a table entry (and the
\* constructor yields an instance); otherwise the registry and the
\* devices are unchanged; and no two table entries carry the same tuple.
C14_ExactMatch ==
  /\ \A i, j \in 1 .. NUM_MATCHES :
       ( /\ device_matches[i].vid = device_matches[j].vid
         /\ device_matches[i].pid = device_matches[j].pid
         /\ device_matches[i].subsystem = device_matches[j].subsystem
         /\ device_matches[i].interface = device_matches[j].interface )
         => i = j
  /\ [][ \A h \in AddEvents, made \in BOOLEAN :
           add_event(h, made) =>
             IF made /\ \E i \in 1 .. NUM_MATCHES : TupleEquals(h, i)
               THEN /\ Len(device_list') = Len(device_list) + 1
                    /\ dev'[device_list'[Len(device_list')]].devnode
                         = h.devnode
               ELSE UNCHANGED << device_list, dev >> ]_vars

\* C16: an enumeration that aborts leaves the LED table and the IMU
\* offset as they were before it began.
C16_AbortAppliesNothing ==
  (enumeration.called /\ enumeration.ret < 0) => enumeration.tab = LedTable0

\* C20: an enumeration issues no get after an answer whose index is
\* count - 1, and it ends successfully only on such an answer.
C20_StopsAtLastIndex ==
  enumeration.called =>
    /\ \A j \in 1 .. enumeration.gets :
         ( /\ enumeration.resp[j].ret = 0
           /\ enumeration.resp[j].index = enumeration.num - 1 )
           => j = enumeration.gets
    /\ enumeration.ret = 0 =>
         enumeration.resp[enumeration.gets].index = enumeration.num - 1

\* C18: a poll timeout, a poll error or a read error is followed by a
\* keepalive before the worker waits on the handle again.
C18_KeepaliveAfterError ==
  (/\ worker.r.thread = "poll"
   /\ worker.wake \in {"timeout", "poll_error", "read_error"})
    => worker.keepalive

\* C19: the report counter is the number of full reports decoded since
\* the last keepalive (0 at a keepalive, one more per decoded report), it
\* never passes 9 * report_rate + 1, and the wake-up that finds it above
\* 9 * report_rate sends a keepalive.
C19_ForcedKeepalive ==
  /\ worker.r.count = worker.since
  /\ worker.since <= 9 * worker.r.report_rate + 1
  /\ (worker.wake = "counter") => (worker.keepalive /\ worker.r.count = 0)
  /\ (worker.wake \in {"full", "short", "read_error"}) => ~worker.keepalive

\* C19 witness: after full reports, short reports and read errors the
\* counter passed 9 * report_rate, and the next wake-up sent the keepalive.
C19_Witness ==
  /\ worker.wake = "counter"
  /\ worker.keepalive
  /\ worker.r.count = 0
  /\ worker.r.thread = "check"

\* The position answers the enumeration read whose type discriminator is
\* neither LED (0) nor IMU offset (1).
UnknownTypeRead ==
  { j \in 1 .. enumeration.gets :
      /\ enumeration.resp[j].ret = 0
      /\ enumeration.resp[j].type \notin {0, 1} }

\* C21: a position record whose type is neither 0 nor 1 aborts the
\* position enumeration, and its value reaches neither the LED table nor
\* the IMU offset.
C21_UnknownTypeAborts ==
  (/\ enumeration.routine = "positions"
   /\ enumeration.called
   /\ UnknownTypeRead # {})
    => /\ enumeration.ret < 0
       /\ \A j \in UnknownTypeRead :
            /\ enumeration.tab.imu_position # enumeration.resp[j].val
            /\ \A k \in 0 .. MAX_POSITIONS - 1 :
                 enumeration.tab.positions[k] # enumeration.resp[j].val

\* The claimed drift condition for a message decoded from private data
\* priv: delta, the wrapping difference of the message's timestamp and the
\* previous one, differs from report_interval times the message's sample
\* count by more than 1.  A delta of 2^31 or more shows as negative.
Drifted(priv, m) ==
  LET delta == Sub32(m.timestamp, priv.last_sample_timestamp)
      expected == priv.report_interval * m.num_samples
  IN delta < 0 \/ delta - expected > 1 \/ expected - delta > 1

\* C22: the decode of a message logs a drift event exactly when the
\* wrapping timestamp delta differs from report_interval times the sample
\* count by more than 1.
C22_DriftLoggedIffOutOfTolerance ==
  [][(~decode.called /\ decode'.called)
       => \A r \in Runs :
            decode'.logged[r] <=> Drifted(decode.priv[r], decode.message)]_vars

\* The registry positions whose instance has device-node path p.
EntriesOf(p) ==
  { k \in 1 .. Len(device_list) : dev[device_list[k]].devnode = p }

\* C23: a remove event that matches no registry entry changes neither the
\* registry nor any device; one that matches takes one matching entry out
\* of the registry, the others keeping their order, has the device
\* stopped, and when it has been processed the registry has no entry with
\* that path.
C23_RemoveFrame ==
  [][ /\ \A h \in Hardware :
           udev_source_callback("remove", h, FALSE) =>
             IF EntriesOf(h.devnode) = {}
               THEN UNCHANGED << device_list, dev >>
               ELSE \E k \in EntriesOf(h.devnode) :
                      device_list' = RemoveAt(device_list, k)
      /\ (mon_pc \in {"rm_unref", "rm_join"} /\ mon_pc' = "idle") =>
           /\ ~dev'[mon_dev].active
           /\ dev'[mon_dev].thread = "none"
           /\ \A k \in 1 .. Len(device_list') :
                dev'[device_list'[k]].devnode # dev[mon_dev].devnode
    ]_vars

\* C24: the worker leaves its loop only at the loop condition, having
\* found the active flag false; with the flag set, no poll result, read
\* error or short report ends the thread.
C24_LeavesOnlyWhenInactive ==
  [][ (worker.r.thread # "done" /\ worker'.r.thread = "done")
        => (worker.r.thread = "check" /\ ~worker.r.active) ]_vars

\* C24 witness: poll reported an error, a hang-up or an invalid handle on
\* a data-ready wake-up, the flag is set, and the worker is back at the
\* loop condition.
C24_Witness ==
  /\ worker.revents \cap {"POLLERR", "POLLHUP", "POLLNVAL"} # {}
  /\ worker.wake \in {"read_error", "short", "full"}
  /\ worker.r.active
  /\ worker.r.thread = "check"

\* An instance whose start has failed.
StartFailed(d) == dev[d].alloc = "live" /\ dev[d].bringup \notin {"none", "ok"}

\* C25: when the start that follows a matching add with an instance has
\* returned, the instance is registered, inactive if the start failed; a
\* registered instance whose start failed stays inactive, and an instance
\* leaves the registry only by a remove event for its device-node path;
\* an add whose constructor returns no instance leaves the registry as it
\* was.
C25_FailedStartStaysRegistered ==
  /\ [](mon_pc = "add_start" => Registered(mon_dev))
  /\ [](\A d \in Inst : (Registered(d) /\ StartFailed(d)) => ~dev[d].active)
  /\ [][ /\ (mon_pc = "add_start" /\ mon_pc' = "idle") =>
              \E k \in 1 .. Len(device_list') : device_list'[k] = mon_dev
         /\ \A d \in Inst :
              (/\ Registered(d)
               /\ \A k \in 1 .. Len(device_list') : device_list'[k] # d)
                => \E h \in Hardware :
                     /\ h.devnode = dev[d].devnode
                     /\ udev_source_callback("remove", h, FALSE)
         /\ \A h \in Hardware :
              (udev_source_callback("add", h, FALSE)
                 \/ ouvrtd_enumerate(h, FALSE))
                => UNCHANGED device_list
       ]_vars

\* C25 witness: the start of a registered instance has failed and
\* returned; the instance is in the registry, inactive.
C25_Witness ==
  /\ mon_pc = "idle"
  /\ \E d \in Inst : Registered(d) /\ StartFailed(d) /\ ~dev[d].active

====
